---- MODULE Spec2Model ----
(***************************************************************************)
(* A model of the MEX entry points of mt_model_HS1998:                     *)
(*   validCorrDn3.c + svalidconvolve.c  (valid 3-D correlation)            *)
(*   destructiveMatrixWriteAtIndices.c  (in-place overwrite)               *)
(* Buffers are functions on 0..n-1 (C indexing).  Double values are        *)
(* modelled by integers, on which the code's sums and products are exact.  *)
(***************************************************************************)
EXTENDS Integers, Sequences, FiniteSets, TLC

(***************************************************************************)
(* Bounds of the model.                                                    *)
(***************************************************************************)
\* largest extent of the image on axes 0 and 1
MaxXY == 3
\* largest extent of the image on axis 2
MaxT == 2
\* largest extent of the filter on each of its three axes
MaxF == 2
\* largest number of elements of the target of destructiveMatrixWriteAtIndices
MaxLen == 5
\* largest number of elements of its newValues argument
MaxNew == 2
\* largest step; step arguments are the doubles n/2, -2 <= n <= 2*MaxStep
MaxStep == 2
\* largest number of elements of pointOp's lookup table
MaxLut == 3
\* largest number of pixels of pointOp's image
MaxPixels == 2
\* largest number of elements of range2's matrix
MaxElems == 4
\* largest element of range2's matrix; the elements are 0 .. MaxVal
MaxVal == 3

(***************************************************************************)
(* C arithmetic.                                                           *)
(***************************************************************************)
\* C's signed integer division: the quotient is truncated toward zero.
TruncDiv(a, b) ==
  IF (a >= 0) = (b > 0)
    THEN (IF a >= 0 THEN a ELSE 0 - a) \div (IF b > 0 THEN b ELSE 0 - b)
    ELSE 0 - ((IF a >= 0 THEN a ELSE 0 - a) \div (IF b > 0 THEN b ELSE 0 - b))

\* (int) applied to the double h/2: the fraction is discarded.
DoubleHalfToInt(h) == TruncDiv(h, 2)

\* mwSize / size_t is an unsigned 64-bit integer.  Its values are written as
\* four 16-bit limbs <<l0, l1, l2, l3>>, least significant first.
Limb == 2^16

U64(n) == <<n % Limb, n \div Limb, 0, 0>>

IsSmall(u) == u[3] = 0 /\ u[4] = 0 /\ u[2] < 2^14

ToNat(u) == u[1] + u[2] * Limb

Add64(a, b) ==
  LET s1 == a[1] + b[1]
      s2 == a[2] + b[2] + s1 \div Limb
      s3 == a[3] + b[3] + s2 \div Limb
      s4 == a[4] + b[4] + s3 \div Limb
  IN  <<s1 % Limb, s2 % Limb, s3 % Limb, s4 % Limb>>

\* a - b modulo 2^64
Sub64(a, b) ==
  LET d1 == a[1] - b[1]
      d2 == a[2] - b[2] - (IF d1 < 0 THEN 1 ELSE 0)
      d3 == a[3] - b[3] - (IF d2 < 0 THEN 1 ELSE 0)
      d4 == a[4] - b[4] - (IF d3 < 0 THEN 1 ELSE 0)
  IN  <<d1 % Limb, d2 % Limb, d3 % Limb, d4 % Limb>>

Lt64(a, b) ==
  \/ a[4] < b[4]
  \/ a[4] = b[4] /\ a[3] < b[3]
  \/ a[4] = b[4] /\ a[3] = b[3] /\ a[2] < b[2]
  \/ a[4] = b[4] /\ a[3] = b[3] /\ a[2] = b[2] /\ a[1] < b[1]

\* The conversion of an int to size_t: a negative n becomes 2^64 + n.
IntToU64(n) == IF n >= 0 THEN U64(n) ELSE Sub64(U64(0), U64(0 - n))

\* a / b on size_t, b # 0.  The divisors of the model are the conversions of
\* int steps: below 2^15 (schoolbook division by a one-limb number) or at
\* least 2^63 (the quotient is 0 or 1).
Div64(a, b) ==
  CASE b[2] = 0 /\ b[3] = 0 /\ b[4] = 0 /\ b[1] < 2^15 ->
         LET n  == b[1]
             q4 == a[4] \div n
             r4 == a[4] % n
             q3 == (r4 * Limb + a[3]) \div n
             r3 == (r4 * Limb + a[3]) % n
             q2 == (r3 * Limb + a[2]) \div n
             r2 == (r3 * Limb + a[2]) % n
             q1 == (r2 * Limb + a[1]) \div n
         IN  <<q1, q2, q3, q4>>
    [] b[4] >= 2^15 -> IF Lt64(a, b) THEN U64(0) ELSE U64(1)

(***************************************************************************)
(* State.                                                                  *)
(***************************************************************************)
VARIABLES
  pc,           \* position of the validCorrDn3 call
  nrhs,         \* number of arguments of the call
  step_numel,   \* number of elements of the step argument, 0 without one
  image,        \* the image buffer (prhs[0]), all four axes
  filt,         \* the filter buffer (prhs[1])
  image_dims,   \* mwSize image_dims[4], here <<d0, d1, d2, d3>>
  filter_dims,  \* mwSize filter_dims[4]
  step,         \* int step[3]
  result_dims,  \* mwSize result_dims[4], each a 64-bit value
  result,       \* the output buffer plhs[0]; <<>> while not allocated
  res_dim,      \* valid_filter's x_res_dim, y_res_dim, t_res_dim
  pos,          \* valid_filter's loop counters <<x, y, t>>
  written,      \* for each output index, how often line 97 has stored to it
  err,          \* identifier of the error the call ended with, or "none"
  \* destructiveMatrixWriteAtIndices
  w_pc,         \* position of the call
  mtx,          \* the target matrix's data (prhs[0]), written in place
  newValues,    \* the data of prhs[1]
  numValues,    \* size_t numValues
  startIndex,   \* size_t startIndex, a 64-bit value
  mtxSize,      \* size_t mtxSize
  w_i,          \* the loop counter i
  start_arg,    \* the double passed as startIndex, in halves
  mtx0,         \* the target matrix's data before the call
  \* pointOp
  po_pc,        \* position of the call
  im,           \* the image's pixels (prhs[0]), doubles written in halves
  lut,          \* the lookup table (prhs[1]), whole numbers
  lutsize,      \* size_t lutsize of internal_pointop, after line 123
  origin,       \* double origin, in halves
  increment,    \* double increment, in halves
  po_i,         \* the loop counter i
  res,          \* the output buffer; res[i] = <<n, d>> is the double n/d
  reads,        \* the positions of lut read so far, as 64-bit values
  \* range2
  rg_pc,        \* position of the call
  rg_mtx,       \* the matrix's data (prhs[0]), in memory order
  numElements,  \* size_t numElements
  minVal,       \* double minVal
  maxVal,       \* double maxVal
  rg_i,         \* the loop counter i
  plhs          \* the outputs <<plhs[0], plhs[1]>>; <<>> while not created

corrVars == <<pc, nrhs, step_numel, image, filt, image_dims, filter_dims, step,
              result_dims, result, res_dim, pos, written, err>>

writeVars == <<w_pc, mtx, newValues, numValues, startIndex, mtxSize, w_i,
               start_arg, mtx0>>

pointVars == <<po_pc, im, lut, lutsize, origin, increment, po_i, res, reads>>

rangeVars == <<rg_pc, rg_mtx, numElements, minVal, maxVal, rg_i, plhs>>

vars == <<corrVars, writeVars, pointVars, rangeVars>>

\* What a call of one entry point leaves alone: the state of the others.
outside_corr == <<writeVars, pointVars, rangeVars>>
outside_write == <<corrVars, pointVars, rangeVars>>
outside_point == <<corrVars, writeVars, rangeVars>>
outside_range == <<corrVars, writeVars, pointVars>>

\* How a call that divides by zero or indexes outside a buffer may go on: it
\* traps, or it runs on in a way the C standard leaves open.
UndefinedOutcomes == {"crashed", "undefined"}

(***************************************************************************)
(* Arguments of a call.                                                    *)
(***************************************************************************)
\* The classes of array the argument checks tell apart: a full real double
\* array, a sparse or a complex double array, an array of another class.
ArgKinds == {"double", "sparse", "complex", "single"}

mxIsDouble(kind) == kind # "single"
mxIsSparse(kind) == kind = "sparse"
mxIsComplex(kind) == kind = "complex"

\* The dimension vectors MATLAB hands over: at least two entries, and no
\* trailing entry equal to 1 beyond the second.  An extent may be 0 (the
\* empty arrays [], zeros(2, 2, 0), zeros(2, 2, 2, 0)); the fourth axis has
\* extent 1 (dropped by MATLAB), 0 or 2.
ImageShapes ==
  { <<a, b>> : a \in 1..MaxXY, b \in 1..MaxXY }
  \cup { <<0, 0>>, <<2, 2, 0>> }
  \cup { <<a, b, c>> : a \in 1..MaxXY, b \in 1..MaxXY, c \in 2..MaxT }
  \cup { <<a, b, c, d>> : a \in 1..MaxXY, b \in 1..MaxXY, c \in 1..MaxT,
                          d \in {0, 2} }

FilterShapes ==
  { <<a, b>> : a \in 1..MaxF, b \in 1..MaxF }
  \cup { <<0, 0>>, <<1, 1, 0>> }
  \cup { <<a, b, c>> : a \in 1..MaxF, b \in 1..MaxF, c \in 2..MaxF }

NumberOfElements(dims) ==
  LET RECURSIVE Prod(_)
      Prod(k) == IF k = 0 THEN 1 ELSE dims[k] * Prod(k - 1)
  IN  Prod(Len(dims))

\* Contents of the buffers.  The image holds 1, 2, 3, ... in memory order;
\* the filter is all ones (seed 0) or 1, 2, 3, ... (seed 1, not symmetric).
FiltSeeds == {0, 1}
ImgVal(i) == i + 1
FiltVal(seed, j) == 1 + seed * j

ImageData(dims) == [i \in 0..(NumberOfElements(dims) - 1) |-> ImgVal(i)]
FilterData(dims, seed) == [j \in 0..(NumberOfElements(dims) - 1) |-> FiltVal(seed, j)]

\* The doubles of a step argument, each written as a number of halves.
StepHalves == (0 - 2)..(2 * MaxStep)

\* A step argument: its class and its doubles.  Vectors of two and of four
\* elements stand for the wrong lengths.
StepArgs ==
  [kind : {"double"}, data : [1..3 -> StepHalves]]
  \cup [kind : {"double", "single"}, data : {<<2, 2>>, <<2, 2, 2>>, <<2, 2, 2, 2>>}]

ImageArgs ==
  { [kind |-> "double", dims |-> d, data |-> ImageData(d)] : d \in ImageShapes }
  \cup { [kind |-> k, dims |-> <<1, 1>>, data |-> ImageData(<<1, 1>>)] :
      k \in ArgKinds }

FilterArgs ==
  { [kind |-> "double", dims |-> d, data |-> FilterData(d, s)] :
      d \in FilterShapes, s \in FiltSeeds }
  \cup { [kind |-> k, dims |-> <<1, 1>>, data |-> FilterData(<<1, 1>>, 0)] :
      k \in ArgKinds }

\* The calls: one, two or three arguments (prhs[nrhs..] do not exist and are
\* never looked at).
Calls ==
  [nrhs : {1}, image : {CHOOSE a \in ImageArgs : a.kind = "double"},
   filter : {CHOOSE a \in FilterArgs : a.kind = "double"},
   step : {[kind |-> "double", data |-> <<2, 2, 2>>]}]
  \cup [nrhs : {2}, image : ImageArgs, filter : FilterArgs,
        step : {[kind |-> "double", data |-> <<2, 2, 2>>]}]
  \cup [nrhs : {3}, image : ImageArgs, filter : FilterArgs, step : StepArgs]

(***************************************************************************)
(* validCorrDn3.c                                                          *)
(***************************************************************************)
\* Lines 45-46 and 72-74, 82-84: the extents start as {1, 1, 1, 1} and the
\* first min(ndims, 4) are overwritten by the argument's.
CopyDims(pdim) == [i \in 1..4 |-> IF i <= Len(pdim) THEN pdim[i] ELSE 1]

\* Lines 91-94: step[i] = (int) step_data[i].
ConvertStep(data) == [i \in 1..3 |-> DoubleHalfToInt(data[i])]

\* ValidationError with the step's length checked by < 3 instead of != 3.
ValidationError_LongStep(n, img, flt, stp) ==
  IF n < 2 THEN "invalidNumInputs"
  ELSE IF ~mxIsDouble(img.kind) \/ mxIsSparse(img.kind) \/ mxIsComplex(img.kind)
    THEN "invalidImage"
  ELSE IF ~mxIsDouble(flt.kind) \/ mxIsSparse(flt.kind) \/ mxIsComplex(flt.kind)
    THEN "invalidFilter"
  ELSE IF n > 2 /\ (~mxIsDouble(stp.kind) \/ Len(stp.data) < 3)
    THEN "invalidStep"
  ELSE "none"

\* The error validateInputs raises for a call, or "none" (lines 63-90).
ValidationError(n, img, flt, stp) ==
  IF n < 2 THEN "invalidNumInputs"
  ELSE IF ~mxIsDouble(img.kind) \/ mxIsSparse(img.kind) \/ mxIsComplex(img.kind)
    THEN "invalidImage"
  ELSE IF ~mxIsDouble(flt.kind) \/ mxIsSparse(flt.kind) \/ mxIsComplex(flt.kind)
    THEN "invalidFilter"
  ELSE IF n > 2 /\ (~mxIsDouble(stp.kind) \/ Len(stp.data) # 3)
    THEN "invalidStep"
  ELSE "none"

\* validateInputs (lines 60-96) on the arguments of one call.  An error
\* ends the call; otherwise the locals of mexFunction hold the buffers, the
\* extents and the converted step (line 47: {1, 1, 1} when none is passed).
ValidateInputs ==
  /\ pc = "start"
  /\ UNCHANGED outside_corr
  /\ \E c \in Calls :
       LET e == ValidationError(c.nrhs, c.image, c.filter, c.step) IN
       IF e # "none"
         THEN /\ pc' = "error"
              /\ err' = e
              /\ nrhs' = c.nrhs
              /\ step_numel' = IF c.nrhs > 2 THEN Len(c.step.data) ELSE 0
              /\ UNCHANGED <<image, filt, image_dims, filter_dims, step>>
         ELSE /\ pc' = "validated"
              /\ err' = "none"
              /\ nrhs' = c.nrhs
              /\ step_numel' = IF c.nrhs > 2 THEN Len(c.step.data) ELSE 0
              /\ image' = c.image.data
              /\ filt' = c.filter.data
              /\ image_dims' = CopyDims(c.image.dims)
              /\ filter_dims' = CopyDims(c.filter.dims)
              /\ step' = IF c.nrhs > 2 THEN ConvertStep(c.step.data) ELSE <<1, 1, 1>>
  /\ UNCHANGED <<result_dims, result, res_dim, pos, written>>

\* Lines 99-101: (image_dims[i] - filter_dims[i]) / step[i] + 1 in mwSize
\* arithmetic; the int step is converted to mwSize for the division.
\* calculateDim without the final + 1.
calculateDim_NoPlusOne(idim, fdim, stp) ==
  Div64(Sub64(U64(idim), U64(fdim)), IntToU64(stp))

\* calculateDim with the remainder taken where the quotient is meant.
calculateDim_Remainder(idim, fdim, stp) ==
  IF idim >= fdim /\ stp >= 1
    THEN U64(((idim - fdim) % stp) + 1)
    ELSE Add64(Div64(Sub64(U64(idim), U64(fdim)), IntToU64(stp)), U64(1))

calculateDim(idim, fdim, stp) ==
  Add64(Div64(Sub64(U64(idim), U64(fdim)), IntToU64(stp)), U64(1))

\* calculateOutputDimensions (lines 98-103).  A zero step divides by zero,
\* which is undefined.
CalculateOutputDimensions ==
  /\ pc = "validated"
  /\ UNCHANGED outside_corr
  /\ IF \E i \in 1..3 : step[i] = 0
       THEN /\ pc' \in UndefinedOutcomes
            /\ UNCHANGED result_dims
       ELSE /\ pc' = "dims"
            /\ result_dims' =
                 [i \in 1..4 |->
                    IF i = 4 THEN U64(image_dims[4])
                    ELSE calculateDim(image_dims[i], filter_dims[i], step[i])]
  /\ UNCHANGED <<nrhs, step_numel, image, filt, image_dims, filter_dims, step, result,
                 res_dim, pos, written, err>>

\* Line 54: mxCreateNumericArray(4, result_dims, mxDOUBLE_CLASS, mxREAL)
\* returns a zero-filled array, or ends the call when the array cannot be
\* created; an extent of 2^30 or more is beyond every host's memory.
Allocatable(dims) == \A i \in 1..4 : IsSmall(dims[i])

ZeroArray(dims) ==
  [i \in 0..(ToNat(dims[1]) * ToNat(dims[2]) * ToNat(dims[3]) * ToNat(dims[4]) - 1)
     |-> 0]

CreateResult ==
  /\ pc = "dims"
  /\ UNCHANGED outside_corr
  /\ IF Allocatable(result_dims)
       THEN /\ pc' = "allocated"
            /\ result' = ZeroArray(result_dims)
            /\ written' = ZeroArray(result_dims)
            /\ err' = err
       ELSE /\ pc' = "error"
            /\ err' = "outOfMemory"
            /\ UNCHANGED <<result, written>>
  /\ UNCHANGED <<nrhs, step_numel, image, filt, image_dims, filter_dims, step, result_dims,
                 res_dim, pos>>

(***************************************************************************)
(* svalidconvolve.c                                                        *)
(***************************************************************************)
\* Lines 64-66: (idim - fdim) / step + 1 in int arithmetic.
ResDim(idim, fdim, stp) == TruncDiv(idim - fdim, stp) + 1

\* performValidCorrelation (lines 105-109) passes the first three extents
\* and the step to valid_filter, whose lines 64-66 compute the extents of the
\* sweep.  (step[i] # 0 here: calculateOutputDimensions has divided by it.)
EnterValidFilter ==
  /\ pc = "allocated"
  /\ UNCHANGED outside_corr
  /\ pc' = "sweep"
  /\ res_dim' = [i \in 1..3 |-> ResDim(image_dims[i], filter_dims[i], step[i])]
  /\ pos' = <<0, 0, 0>>
  /\ UNCHANGED <<nrhs, step_numel, image, filt, image_dims, filter_dims, step, result_dims,
                 result, written, err>>

\* Lines 84-89: the image element under filter coordinate (fx, fy, ft) of the
\* window of output coordinate (x, y, t).
ImageIndex(x, y, t, fx, fy, ft) ==
  (x * step[1] + fx)
    + (y * step[2] + fy) * image_dims[1]
    + (t * step[3] + ft) * image_dims[1] * image_dims[2]

\* FilterIndex with the filter reversed on every axis (a true convolution).
FilterIndex_Flipped(fx, fy, ft) ==
  (filter_dims[1] - 1 - fx)
    + (filter_dims[2] - 1 - fy) * filter_dims[1]
    + (filter_dims[3] - 1 - ft) * filter_dims[1] * filter_dims[2]

\* Line 90.
FilterIndex(fx, fy, ft) ==
  fx + fy * filter_dims[1] + ft * filter_dims[1] * filter_dims[2]

\* Line 97.
ResultIndex(x, y, t) == x + y * res_dim[1] + t * res_dim[1] * res_dim[2]

\* Lines 75-94: the three filter loops, entered at (fx, fy, ft) with the sum
\* accumulated so far.
RECURSIVE FilterLoops(_, _, _, _, _, _, _)
FilterLoops(x, y, t, fx, fy, ft, sum) ==
  IF ft >= filter_dims[3] THEN sum
  ELSE IF fy >= filter_dims[2] THEN FilterLoops(x, y, t, 0, 0, ft + 1, sum)
  ELSE IF fx >= filter_dims[1] THEN FilterLoops(x, y, t, 0, fy + 1, ft, sum)
  ELSE FilterLoops(x, y, t, fx + 1, fy, ft,
                   sum + image[ImageIndex(x, y, t, fx, fy, ft)]
                           * filt[FilterIndex(fx, fy, ft)])

\* Whether every index used by the body of the output loops at (x, y, t) is
\* inside its buffer.
IndicesInRange(x, y, t) ==
  /\ ResultIndex(x, y, t) \in DOMAIN result
  /\ \A fx \in 0..(filter_dims[1] - 1), fy \in 0..(filter_dims[2] - 1),
        ft \in 0..(filter_dims[3] - 1) :
          /\ ImageIndex(x, y, t, fx, fy, ft) \in DOMAIN image
          /\ FilterIndex(fx, fy, ft) \in DOMAIN filt

\* Lines 69-73 and 98-100: the output coordinate after (x, y, t).
NextPos(x, y, t) ==
  IF x + 1 < res_dim[1] THEN <<x + 1, y, t>>
  ELSE IF y + 1 < res_dim[2] THEN <<0, y + 1, t>>
  ELSE <<0, 0, t + 1>>

\* Whether the loops of lines 69-73 reach their body again.
BodyRuns == res_dim[1] > 0 /\ res_dim[2] > 0 /\ pos[3] < res_dim[3]

\* One pass of the body of the output loops (lines 75-97): the sum of the
\* window at pos is stored to the result.  An index outside its buffer is
\* undefined.
SweepStep ==
  /\ pc = "sweep"
  /\ UNCHANGED outside_corr
  /\ BodyRuns
  /\ LET x == pos[1]
         y == pos[2]
         t == pos[3]
         w == ResultIndex(x, y, t)
     IN  IF IndicesInRange(x, y, t)
           THEN /\ result' = [result EXCEPT ![w] = FilterLoops(x, y, t, 0, 0, 0, 0)]
                /\ written' = [written EXCEPT ![w] = @ + 1]
                /\ pos' = NextPos(x, y, t)
                /\ pc' = pc
           ELSE /\ pc' \in UndefinedOutcomes
                /\ UNCHANGED <<result, written, pos>>
  /\ UNCHANGED <<nrhs, step_numel, image, filt, image_dims, filter_dims, step, result_dims,
                 res_dim, err>>

\* Line 102 and the end of mexFunction: the loops are over, plhs[0] is
\* returned.
Return ==
  /\ pc = "sweep"
  /\ UNCHANGED outside_corr
  /\ ~BodyRuns
  /\ pc' = "done"
  /\ UNCHANGED <<nrhs, step_numel, image, filt, image_dims, filter_dims, step, result_dims,
                 result, res_dim, pos, written, err>>

\* No call of destructiveMatrixWriteAtIndices is under way.
WriteIdle ==
  /\ w_pc = "start"
  /\ mtx = <<>>
  /\ newValues = <<>>
  /\ numValues = 0
  /\ startIndex = U64(0)
  /\ mtxSize = U64(0)
  /\ w_i = 0
  /\ start_arg = 0
  /\ mtx0 = <<>>

CorrIdle ==
  /\ pc = "start"
  /\ nrhs = 0
  /\ step_numel = 0
  /\ image = <<>>
  /\ filt = <<>>
  /\ image_dims = <<1, 1, 1, 1>>
  /\ filter_dims = <<1, 1, 1, 1>>
  /\ step = <<1, 1, 1>>
  /\ result_dims = <<U64(0), U64(0), U64(0), U64(0)>>
  /\ result = <<>>
  /\ res_dim = <<0, 0, 0>>
  /\ pos = <<0, 0, 0>>
  /\ written = <<>>
  /\ err = "none"

\* No call of pointOp is under way.
PointIdle ==
  /\ po_pc = "start"
  /\ im = <<>>
  /\ lut = <<>>
  /\ lutsize = U64(0)
  /\ origin = 0
  /\ increment = 0
  /\ po_i = 0
  /\ res = <<>>
  /\ reads = {}

\* No call of range2 is under way.
RangeIdle ==
  /\ rg_pc = "start"
  /\ rg_mtx = <<>>
  /\ numElements = 0
  /\ minVal = 0
  /\ maxVal = 0
  /\ rg_i = 0
  /\ plhs = <<>>

Init == CorrIdle /\ WriteIdle /\ PointIdle /\ RangeIdle

Next ==
  \/ ValidateInputs
  \/ CalculateOutputDimensions
  \/ CreateResult
  \/ EnterValidFilter
  \/ SweepStep
  \/ Return

Spec == Init /\ [][Next]_vars

(***************************************************************************)
(* destructiveMatrixWriteAtIndices.c                                       *)
(***************************************************************************)
\* Line 45: the macro notDblMtx (every class of ArgKinds is numeric).
notDblMtx(kind) == ~mxIsDouble(kind) \/ mxIsSparse(kind) \/ mxIsComplex(kind)

\* Line 88: (size_t) applied to the double h/2.  The fraction is discarded;
\* a value of -1 or less has no size_t and the conversion is undefined: the
\* targets in use wrap it modulo 2^64 or clamp it to 0.
DoubleHalfToSize(h) ==
  IF TruncDiv(h, 2) >= 0
    THEN {U64(TruncDiv(h, 2))}
    ELSE {IntToU64(TruncDiv(h, 2)), U64(0)}

\* The target holds 1, 2, 3, ... and newValues holds 10, 20, ...
TargetShapes ==
  { <<1, n>> : n \in 1..MaxLen } \cup { <<2, n>> : n \in 1..(MaxLen \div 2) }

NewShapes == { <<1, n>> : n \in 0..MaxNew }

TargetData(dims) == [i \in 0..(dims[1] * dims[2] - 1) |-> i + 1]
NewData(dims) == [i \in 0..(dims[1] * dims[2] - 1) |-> 10 * (i + 1)]

\* The start index arguments: doubles from -1.5 to MaxLen + 1, in halves,
\* as a scalar; a two-element and a non-double argument besides.
StartArgs ==
  [kind : {"double"}, numel : {1}, half : (0 - 3)..(2 * MaxLen + 2)]
  \cup [kind : {"double"}, numel : {2}, half : {2}]
  \cup [kind : {"single"}, numel : {1}, half : {2}]

WriteCalls ==
  [nrhs : {3}, target : [kind : {"double"}, dims : TargetShapes],
   new : [kind : {"double"}, dims : NewShapes], start : StartArgs]
  \cup [nrhs : {2, 3, 4}, target : [kind : ArgKinds, dims : {<<1, 2>>}],
        new : [kind : ArgKinds, dims : {<<1, 1>>}],
        start : [kind : {"double"}, numel : {1}, half : {2}]]

\* The error of lines 59-86 for a call, or "none".
ArgumentError(c) ==
  IF c.nrhs # 3 THEN "nrhs"
  ELSE IF notDblMtx(c.target.kind) THEN "matrix"
  ELSE IF notDblMtx(c.new.kind) THEN "newValues"
  ELSE IF notDblMtx(c.start.kind) \/ c.start.numel # 1 THEN "startIndex"
  ELSE "none"

\* OutOfBounds without its first test: startIndex + numValues > mtxSize
\* alone, which a sum that wraps around passes.
OutOfBounds_SumOnly(start, num, size) ==
  Lt64(size, Add64(start, U64(num)))

\* Line 92: startIndex >= mtxSize || startIndex + numValues > mtxSize, in
\* size_t arithmetic.
OutOfBounds(start, num, size) ==
  ~Lt64(start, size) \/ Lt64(size, Add64(start, U64(num)))

\* Lines 59-95: the argument checks, the conversion of the start index and
\* the bounds check.  The target is the caller's matrix whether or not the
\* call is rejected.
WriteCheck ==
  /\ w_pc = "start"
  /\ UNCHANGED outside_write
  /\ \E c \in WriteCalls :
       /\ mtx' = TargetData(c.target.dims)
       /\ mtx0' = TargetData(c.target.dims)
       /\ newValues' = NewData(c.new.dims)
       /\ start_arg' = c.start.half
       /\ w_i' = 0
       /\ IF ArgumentError(c) # "none"
            THEN /\ w_pc' = "error"
                 /\ UNCHANGED <<numValues, startIndex, mtxSize>>
            ELSE /\ numValues' = c.new.dims[1] * c.new.dims[2]
                 /\ startIndex' \in DoubleHalfToSize(c.start.half)
                 /\ mtxSize' = U64(c.target.dims[1] * c.target.dims[2])
                 /\ w_pc' = IF OutOfBounds(startIndex', numValues', mtxSize')
                              THEN "error" ELSE "loop"

\* Line 100: the element of the target that iteration i stores to.
WriteIndex(start, i) == ToNat(Add64(start, U64(i)))

\* Lines 98-101: one iteration of the loop.  A store outside the target is
\* undefined.
WriteStep ==
  /\ w_pc = "loop"
  /\ UNCHANGED outside_write
  /\ w_i < numValues
  /\ IF IsSmall(Add64(startIndex, U64(w_i)))
          /\ WriteIndex(startIndex, w_i) \in DOMAIN mtx
       THEN /\ mtx' = [mtx EXCEPT ![WriteIndex(startIndex, w_i)] = newValues[w_i]]
            /\ w_i' = w_i + 1
            /\ w_pc' = w_pc
       ELSE /\ w_pc' \in UndefinedOutcomes
            /\ UNCHANGED <<mtx, w_i>>
  /\ UNCHANGED <<newValues, numValues, startIndex, mtxSize, start_arg, mtx0>>

\* Line 103.
WriteReturn ==
  /\ w_pc = "loop"
  /\ UNCHANGED outside_write
  /\ w_i >= numValues
  /\ w_pc' = "done"
  /\ UNCHANGED <<mtx, newValues, numValues, startIndex, mtxSize, w_i,
                 start_arg, mtx0>>

NextWrite ==
  \/ WriteCheck
  \/ WriteStep
  \/ WriteReturn

SpecWrite == Init /\ [][NextWrite]_vars

(***************************************************************************)
(* pointOp.c                                                               *)
(***************************************************************************)
\* Doubles are written as whole numbers of halves; the increments are powers
\* of two, so every quotient and product below is exact in double arithmetic.
\* The pixels reach from left of the table to right of it.
PixelHalves == (0 - 3)..(2 * MaxLut + 1)
OriginHalves == {0, 1}
IncrementHalves == {0 - 2, 0, 1, 2, 4}

\* The lookup table holds 1, 4, 9, ... (not linear, so that an interpolated,
\* an extrapolated and a boundary value differ).
LutShapes ==
  { <<1, n>> : n \in 0..MaxLut } \cup { <<n, 1>> : n \in 2..MaxLut }

LutData(dims) == [k \in 0..(dims[1] * dims[2] - 1) |-> (k + 1) * (k + 1)]

PointImages ==
  UNION { [0..(n - 1) -> PixelHalves] : n \in 1..MaxPixels }

\* A scalar argument: its class, its number of elements, its first double.
PointScalar(halves) == [kind : {"double"}, numel : {1}, half : halves]

PointCalls ==
  [nrhs : {4}, image : [kind : {"double"}, data : PointImages],
   lut : [kind : {"double"}, dims : LutShapes],
   origin : PointScalar(OriginHalves), increment : PointScalar(IncrementHalves),
   warnings : PointScalar({2})]
  \cup [nrhs : {3, 5}, image : [kind : ArgKinds, data : {[i \in 0..0 |-> 2]}],
        lut : [kind : ArgKinds, dims : {<<1, 2>>, <<2, 2>>}],
        origin : [kind : {"double", "complex"}, numel : {1, 2}, half : {0}],
        increment : [kind : {"double", "sparse"}, numel : {1, 2}, half : {2}],
        warnings : [kind : {"double", "single"}, numel : {1, 2}, half : {0}]]

\* The error of lines 57-100 for a call, or "none".
PointArgumentError(c) ==
  IF c.nrhs < 4 THEN "nrhs"
  ELSE IF notDblMtx(c.image.kind) THEN "image"
  ELSE IF notDblMtx(c.lut.kind) THEN "lut"
  ELSE IF c.lut.dims[1] # 1 /\ c.lut.dims[2] # 1 THEN "lutVector"
  ELSE IF notDblMtx(c.origin.kind) \/ c.origin.numel # 1 THEN "origin"
  ELSE IF notDblMtx(c.increment.kind) \/ c.increment.numel # 1 THEN "increment"
  ELSE IF c.nrhs > 4 /\ (notDblMtx(c.warnings.kind) \/ c.warnings.numel # 1)
    THEN "warnings"
  ELSE "none"

\* Lines 57-112 and 123: the argument checks, the zero-filled output of
\* mxCreateDoubleMatrix, and lutsize -= 2 in size_t arithmetic.
PointCheck ==
  /\ po_pc = "start"
  /\ UNCHANGED outside_point
  /\ \E c \in PointCalls :
       /\ po_i' = 0
       /\ reads' = {}
       /\ IF PointArgumentError(c) # "none"
            THEN /\ po_pc' = "error"
                 /\ UNCHANGED <<im, lut, lutsize, origin, increment, res>>
            ELSE /\ po_pc' = "loop"
                 /\ im' = c.image.data
                 /\ lut' = LutData(c.lut.dims)
                 /\ lutsize' = Sub64(U64(c.lut.dims[1] * c.lut.dims[2]), U64(2))
                 /\ origin' = c.origin.half
                 /\ increment' = c.increment.half
                 /\ res' = [i \in DOMAIN c.image.data |-> <<0, 1>>]

\* Line 128: pos = (im[i] - origin) / increment is the double PosNum(i) /
\* increment (numerator and denominator in halves).
PosNum(i) == im[i] - origin

\* Line 129: (size_t) applied to the double n/d, d > 0.  The fraction is
\* discarded; a value of -1 or less has no size_t and the conversion is
\* undefined: the targets in use wrap it modulo 2^64 or clamp it to 0.
DoubleToSize(n, d) ==
  IF TruncDiv(n, d) >= 0
    THEN {U64(TruncDiv(n, d))}
    ELSE {IntToU64(TruncDiv(n, d)), U64(0)}

\* Lines 132-147: index < 0 is never true of a size_t, so the index is used
\* as converted and nothing is printed.
ClampIndex(index) == IF Lt64(index, U64(0)) THEN U64(0) ELSE index

\* Line 150: lut[index] + (lut[index + 1] - lut[index]) * (pos - index), as
\* the pair <<numerator, denominator>> with pos = n/d.
Interpolate(k, n, d) == <<lut[k] * d + (lut[k + 1] - lut[k]) * (n - k * d), d>>

\* Lines 127-151 and 154-156: one iteration of the loop that runs.  A read
\* outside the table is undefined.
PointStep ==
  /\ po_pc = "loop"
  /\ UNCHANGED outside_point
  /\ po_i \in DOMAIN im
  /\ IF increment > 0
       THEN \E converted \in DoubleToSize(PosNum(po_i), increment) :
              LET index == ClampIndex(converted) IN
              /\ reads' = reads \cup {index, Add64(index, U64(1))}
              /\ IF IsSmall(index) /\ ToNat(index) \in DOMAIN lut
                      /\ ToNat(index) + 1 \in DOMAIN lut
                   THEN /\ res' = [res EXCEPT ![po_i] =
                                     Interpolate(ToNat(index), PosNum(po_i), increment)]
                        /\ po_i' = po_i + 1
                        /\ po_pc' = po_pc
                   ELSE /\ po_pc' \in UndefinedOutcomes
                        /\ UNCHANGED <<res, po_i>>
       ELSE /\ reads' = reads \cup {U64(0)}
            /\ IF 0 \in DOMAIN lut
                 THEN /\ res' = [res EXCEPT ![po_i] = <<lut[0], 1>>]
                      /\ po_i' = po_i + 1
                      /\ po_pc' = po_pc
                 ELSE /\ po_pc' \in UndefinedOutcomes
                      /\ UNCHANGED <<res, po_i>>
  /\ UNCHANGED <<im, lut, lutsize, origin, increment>>

\* Lines 152 and 157-158, and the end of mexFunction.
PointReturn ==
  /\ po_pc = "loop"
  /\ UNCHANGED outside_point
  /\ po_i \notin DOMAIN im
  /\ po_pc' = "done"
  /\ UNCHANGED <<im, lut, lutsize, origin, increment, po_i, res, reads>>

NextPoint ==
  \/ PointCheck
  \/ PointStep
  \/ PointReturn

SpecPoint == Init /\ [][NextPoint]_vars

(***************************************************************************)
(* range2.c                                                                *)
(***************************************************************************)
\* The matrices: row vectors of 0 .. MaxElems elements and the 2x2 shape of
\* the header's example.
RangeShapes == { <<1, n>> : n \in 0..MaxElems } \cup { <<2, 2>> }

\* The elements: the doubles 0 .. MaxVal and NaN, a legal element of a real
\* double matrix, written as the number after MaxVal.
NaN == MaxVal + 1

RangeValues == 0..MaxVal \cup {NaN}

\* The comparisons of doubles of lines 65 and 67: false when either side is
\* NaN.
DoubleLt(a, b) == a # NaN /\ b # NaN /\ a < b
DoubleGt(a, b) == a # NaN /\ b # NaN /\ a > b

RangeCalls ==
  UNION { { [nrhs |-> 1, kind |-> "double", dims |-> d, data |-> m] :
              m \in [0..(d[1] * d[2] - 1) -> RangeValues] } : d \in RangeShapes }
  \cup [nrhs : {0, 1, 2}, kind : ArgKinds, dims : {<<1, 1>>},
        data : {[i \in 0..0 |-> 1]}]

\* The error of lines 46-54 for a call, or "none".
RangeArgumentError(c) ==
  IF c.nrhs # 1 THEN "nrhs"
  ELSE IF notDblMtx(c.kind) THEN "matrix"
  ELSE "none"

\* Lines 46-60: the argument checks and minVal = maxVal = mtx[0].  Reading
\* mtx[0] of an empty matrix is undefined.
RangeCheck ==
  /\ rg_pc = "start"
  /\ UNCHANGED outside_range
  /\ \E c \in RangeCalls :
       /\ plhs' = <<>>
       /\ rg_i' = IF RangeArgumentError(c) = "none" /\ 0 \in DOMAIN c.data
                    THEN 1 ELSE 0
       /\ IF RangeArgumentError(c) # "none"
            THEN /\ rg_pc' = "error"
                 /\ UNCHANGED <<rg_mtx, numElements, minVal, maxVal>>
            ELSE /\ rg_mtx' = c.data
                 /\ numElements' = c.dims[1] * c.dims[2]
                 /\ IF 0 \in DOMAIN c.data
                      THEN /\ rg_pc' = "loop"
                           /\ minVal' = c.data[0]
                           /\ maxVal' = c.data[0]
                      ELSE /\ rg_pc' \in UndefinedOutcomes
                           /\ UNCHANGED <<minVal, maxVal>>

\* ScanStep with the second test made against minVal.
ScanStep_AgainstMin(mn, mx, temp) ==
  IF DoubleLt(temp, mn) THEN <<temp, mx>>
  ELSE IF DoubleGt(temp, mn) THEN <<mn, temp>>
  ELSE <<mn, mx>>

\* Lines 65-69: <<minVal, maxVal>> after the element temp has been seen.
ScanStep(mn, mx, temp) ==
  IF DoubleLt(temp, mn) THEN <<temp, mx>>
  ELSE IF DoubleGt(temp, mx) THEN <<mn, temp>>
  ELSE <<mn, mx>>

\* Lines 63-70: one iteration of the loop.
RangeStep ==
  /\ rg_pc = "loop"
  /\ UNCHANGED outside_range
  /\ rg_i < numElements
  /\ minVal' = ScanStep(minVal, maxVal, rg_mtx[rg_i])[1]
  /\ maxVal' = ScanStep(minVal, maxVal, rg_mtx[rg_i])[2]
  /\ rg_i' = rg_i + 1
  /\ UNCHANGED <<rg_pc, rg_mtx, numElements, plhs>>

\* Lines 73-85: the two scalar outputs.
RangeReturn ==
  /\ rg_pc = "loop"
  /\ UNCHANGED outside_range
  /\ rg_i >= numElements
  /\ rg_pc' = "done"
  /\ plhs' = <<minVal, maxVal>>
  /\ UNCHANGED <<rg_mtx, numElements, minVal, maxVal, rg_i>>

NextRange ==
  \/ RangeCheck
  \/ RangeStep
  \/ RangeReturn

SpecRange == Init /\ [][NextRange]_vars

(***************************************************************************)
(* Properties of validCorrDn3.                                             *)
(***************************************************************************)
\* f[0] + ... + f[n-1]
RECURSIVE SumTo(_, _)
SumTo(f, n) == IF n <= 0 THEN 0 ELSE f[n - 1] + SumTo(f, n - 1)

\* The call got past validateInputs.
Accepted == pc \notin {"start", "error"} \/ (pc = "error" /\ err = "outOfMemory")

\* The shapes and the step the spec calls valid.
ValidShapes ==
  \A i \in 1..3 : filter_dims[i] <= image_dims[i] /\ step[i] >= 1

\* floor((image_dims[i] - filter_dims[i]) / step[i]) + 1
Extent(i) == (image_dims[i] - filter_dims[i]) \div step[i] + 1

\* The extents have been computed by calculateOutputDimensions.
ShapeComputed == pc \in {"dims", "allocated", "sweep", "done"}

\* C1: for filter extents <= image extents and steps >= 1, the output shape
\* is floor((image_dims[i] - filter_dims[i]) / step[i]) + 1 on the three
\* convolved axes and image_dims[3] on the fourth; with unit steps it is
\* image_dims[i] - filter_dims[i] + 1; valid_filter derives the same three
\* extents.
C1_OutputShape ==
  (Accepted /\ ValidShapes) =>
    /\ ShapeComputed =>
         /\ \A i \in 1..3 : result_dims[i] = U64(Extent(i))
         /\ result_dims[4] = U64(image_dims[4])
         /\ step = <<1, 1, 1>> =>
              \A i \in 1..3 :
                result_dims[i] = U64(image_dims[i] - filter_dims[i] + 1)
    /\ pc \in {"sweep", "done"} =>
         \A i \in 1..3 : res_dim[i] = Extent(i) /\ U64(res_dim[i]) = result_dims[i]

\* A finished call whose axis 0 is down-sampled with a remainder
\* (floor((3 - 2) / 2) + 1 = 1) on an image with a fourth axis.
C1_Witness ==
  /\ pc = "done"
  /\ ValidShapes
  /\ image_dims = <<3, 2, 2, 2>>
  /\ filter_dims = <<2, 1, 2, 1>>
  /\ step = <<2, 1, 1>>
  /\ result_dims = <<U64(1), U64(2), U64(1), U64(2)>>
  /\ res_dim = <<1, 2, 1>>

\* The sum the claim names for output coordinate (x, y, t) of slice c.
CorrelationAt(c, x, y, t) ==
  LET X == image_dims[1]
      Y == image_dims[2]
      T == image_dims[3]
      FX == filter_dims[1]
      FY == filter_dims[2]
      FT == filter_dims[3]
  IN  SumTo([ft \in 0..(FT - 1) |->
        SumTo([fy \in 0..(FY - 1) |->
          SumTo([fx \in 0..(FX - 1) |->
                   image[(x * step[1] + fx) + (y * step[2] + fy) * X
                           + (t * step[3] + ft) * X * Y + c * X * Y * T]
                     * filt[fx + fy * FX + ft * FX * FY]],
                FX)],
              FY)],
            FT)

\* The 3x3 image with columns [1,2,3], [4,5,6], [7,8,9], the 2x2 all-ones
\* filter and unit steps.
IsExample ==
  /\ image_dims = <<3, 3, 1, 1>>
  /\ image = [i \in 0..8 |-> i + 1]
  /\ filter_dims = <<2, 2, 1, 1>>
  /\ filt = [j \in 0..3 |-> 1]
  /\ step = <<1, 1, 1>>

\* C2: for valid shapes and steps, after valid_filter returns every output
\* coordinate (x, y, t) holds the sum over the filter coordinates of
\* image[window + offset] * filt[offset], the filter not reversed; the 3x3
\* example gives 12, 16, 24, 28.
C2_Correlation ==
  (pc = "done" /\ ValidShapes) =>
    /\ \A x \in 0..(Extent(1) - 1), y \in 0..(Extent(2) - 1), t \in 0..(Extent(3) - 1) :
         result[x + y * Extent(1) + t * Extent(1) * Extent(2)]
           = CorrelationAt(0, x, y, t)
    /\ IsExample =>
         /\ DOMAIN result = 0..3
         /\ <<result[0], result[1], result[2], result[3]>> = <<12, 16, 24, 28>>

\* The example has been computed.
C2_Witness ==
  /\ pc = "done"
  /\ IsExample
  /\ <<result[0], result[1], result[2], result[3]>> = <<12, 16, 24, 28>>

\* C3: with a fourth axis of extent k the result consists of k slices of the
\* same shape, and slice c of the result is the correlation of slice c of
\* the image with the filter.
C3_PassThroughSlices ==
  (pc = "done" /\ ValidShapes) =>
    /\ DOMAIN result = 0..(Extent(1) * Extent(2) * Extent(3) * image_dims[4] - 1)
    /\ \A c \in 0..(image_dims[4] - 1) :
         \A x \in 0..(Extent(1) - 1), y \in 0..(Extent(2) - 1),
            t \in 0..(Extent(3) - 1) :
              result[x + y * Extent(1) + t * Extent(1) * Extent(2)
                       + c * Extent(1) * Extent(2) * Extent(3)]
                = CorrelationAt(c, x, y, t)

\* C4: a call with filter_dims[i] > image_dims[i] on a convolved axis is
\* rejected during validation: no output shape is computed, no output is
\* allocated, nothing is written.
C4_LargeFilterRejected ==
  (pc # "start" /\ \E i \in 1..3 : filter_dims[i] > image_dims[i]) =>
    /\ pc = "error"
    /\ err # "outOfMemory"
    /\ result = <<>>

\* C5: a call with a converted step[i] < 1 is rejected during validation,
\* before any division by the step, any allocation and any output write.
C5_BadStepRejected ==
  (pc # "start" /\ \E i \in 1..3 : step[i] < 1) =>
    /\ pc = "error"
    /\ err \in {"invalidNumInputs", "invalidImage", "invalidFilter", "invalidStep"}
    /\ result = <<>>

\* C6: a call whose step argument has not exactly 3 elements is rejected
\* before the output is allocated or computed; a call without a step
\* argument uses step = [1, 1, 1].
C6_StepLength ==
  /\ (pc # "start" /\ nrhs > 2 /\ step_numel # 3) =>
       /\ pc = "error"
       /\ err # "outOfMemory"
       /\ result = <<>>
       /\ written = <<>>
  /\ (Accepted /\ nrhs = 2) => step = <<1, 1, 1>>

\* A step of four elements has been rejected as such.
C6_Witness ==
  /\ pc = "error"
  /\ err = "invalidStep"
  /\ nrhs = 3
  /\ step_numel = 4

\* C7: over valid inputs every linear index of the output array is written
\* exactly once: never twice during the sweep, and once when the call
\* returns.
C7_WrittenOnce ==
  (Accepted /\ ValidShapes) =>
    /\ \A i \in DOMAIN written : written[i] <= 1
    /\ pc = "done" => \A i \in DOMAIN result : written[i] = 1

\* C8: a 1x1x1 filter holding 1.0 with unit steps gives an output with the
\* extents of the image and result[i] = image[i] at every linear index.
C8_Identity ==
  (/\ pc = "done"
   /\ filter_dims = <<1, 1, 1, 1>>
   /\ filt[0] = 1
   /\ step = <<1, 1, 1>>) =>
    /\ \A i \in 1..4 : result_dims[i] = U64(image_dims[i])
    /\ DOMAIN result = DOMAIN image
    /\ \A i \in DOMAIN image : result[i] = image[i]

\* C9: for filter_dims[i] <= image_dims[i] the extent on axis i does not
\* grow with the step, is at least 1, and is 1 when the two extents agree.
C9_ExtentMonotone ==
  (ShapeComputed /\ ValidShapes) =>
    \A i \in 1..3 :
      /\ IsSmall(result_dims[i]) /\ ToNat(result_dims[i]) >= 1
      /\ image_dims[i] = filter_dims[i] => result_dims[i] = U64(1)
      /\ \A s \in 1..(MaxStep + 2) :
           LET other == calculateDim(image_dims[i], filter_dims[i], s) IN
           /\ s >= step[i] => ToNat(other) <= ToNat(result_dims[i])
           /\ s <= step[i] => ToNat(other) >= ToNat(result_dims[i])

\* An axis on which a larger step gives a strictly smaller extent, and an
\* axis whose image extent equals the filter's.
C9_Witness ==
  /\ ShapeComputed
  /\ ValidShapes
  /\ image_dims[1] = 3 /\ filter_dims[1] = 1 /\ step[1] = 1
  /\ result_dims[1] = U64(3)
  /\ calculateDim(image_dims[1], filter_dims[1], 2) = U64(2)
  /\ image_dims[2] = filter_dims[2] /\ step[2] = 2 /\ result_dims[2] = U64(1)

(***************************************************************************)
(* Properties of destructiveMatrixWriteAtIndices.                          *)
(***************************************************************************)
\* C10: the call overwrites exactly the target elements at the 1-based
\* positions startIndex .. startIndex + numValues - 1 with newValues in
\* order and leaves the others unchanged ([1,2,3,4,5], [10,20], 2 gives
\* [1,10,20,4,5]).
C10_OneBasedWrite ==
  (w_pc = "done" /\ start_arg % 2 = 0 /\ start_arg \div 2 >= 1) =>
    LET first == start_arg \div 2 IN
    \A p \in 1..(ToNat(mtxSize)) :
      mtx[p - 1] = IF first <= p /\ p <= first + numValues - 1
                     THEN newValues[p - first]
                     ELSE mtx0[p - 1]

(***************************************************************************)
(* Index safety of valid_filter.                                           *)
(***************************************************************************)
\* d[1] * d[2] * d[3]
Volume(d) == d[1] * d[2] * d[3]

\* C14: with filter extents <= image extents and steps >= 1 on the three
\* axes, every index of the sweep is in range: each image read index in
\* 0 .. x_idim*y_idim*t_idim - 1, each filter read index in
\* 0 .. x_fdim*y_fdim*t_fdim - 1, each result write index in
\* 0 .. x_res_dim*y_res_dim*t_res_dim - 1, which is within the buffer the
\* entry point allocated from result_dims; no access is undefined.
C14_IndicesInRange ==
  (Accepted /\ ValidShapes) =>
    /\ pc \notin UndefinedOutcomes
    /\ (pc = "sweep") =>
         /\ Volume(res_dim) <= Cardinality(DOMAIN result)
         /\ DOMAIN result = 0..(Cardinality(DOMAIN result) - 1)
         /\ Volume(image_dims) <= Cardinality(DOMAIN image)
         /\ Volume(filter_dims) <= Cardinality(DOMAIN filt)
    /\ (pc = "sweep" /\ BodyRuns) =>
         /\ \A i \in 1..3 : 0 <= pos[i] /\ pos[i] < res_dim[i]
         /\ ResultIndex(pos[1], pos[2], pos[3]) \in 0..(Volume(res_dim) - 1)
         /\ \A fx \in 0..(filter_dims[1] - 1), fy \in 0..(filter_dims[2] - 1),
               ft \in 0..(filter_dims[3] - 1) :
              /\ ImageIndex(pos[1], pos[2], pos[3], fx, fy, ft)
                   \in 0..(Volume(image_dims) - 1)
              /\ FilterIndex(fx, fy, ft) \in 0..(Volume(filter_dims) - 1)

(***************************************************************************)
(* Properties of destructiveMatrixWriteAtIndices, continued.               *)
(***************************************************************************)
\* C12: a call is either rejected with every element of the target as it
\* was, or every position it writes, startIndex + i for i < numValues, is
\* in 0 .. mtxSize - 1 and no store leaves the target; this for negative and
\* fractional start indices and for sums that wrap around as well.
C12_RejectOrInRange ==
  /\ w_pc \notin UndefinedOutcomes
  /\ w_pc = "error" => mtx = mtx0
  /\ w_pc \in {"loop", "done"} =>
       /\ DOMAIN mtx = DOMAIN mtx0
       /\ \A i \in 0..(numValues - 1) :
            /\ Lt64(Add64(startIndex, U64(i)), mtxSize)
            /\ WriteIndex(startIndex, i) \in DOMAIN mtx
       /\ \A p \in DOMAIN mtx :
            mtx[p] # mtx0[p] =>
              \E i \in 0..(w_i - 1) : p = WriteIndex(startIndex, i)

\* A fractional start index is accepted and the writes reach the last
\* element of the target.
C12_Witness ==
  /\ w_pc = "done"
  /\ start_arg % 2 = 1
  /\ start_arg > 2
  /\ numValues = MaxNew
  /\ ToNat(startIndex) + numValues = ToNat(mtxSize)
  /\ mtx[ToNat(mtxSize) - 1] = newValues[numValues - 1]

(***************************************************************************)
(* Properties of range2.                                                   *)
(***************************************************************************)
\* a <= b on doubles: false when either side is NaN.
DoubleLeq(a, b) == a # NaN /\ b # NaN /\ a <= b

\* No element of the matrix is NaN.
NoNaN == \A k \in DOMAIN rg_mtx : rg_mtx[k] # NaN

\* The returned pair bounds every element and both values occur in the
\* matrix.
ReturnsMinMax ==
  /\ rg_i = numElements
  /\ DOMAIN rg_mtx = 0..(numElements - 1)
  /\ plhs = <<minVal, maxVal>>
  /\ \A k \in DOMAIN rg_mtx :
       DoubleLeq(plhs[1], rg_mtx[k]) /\ DoubleLeq(rg_mtx[k], plhs[2])
  /\ \E k \in DOMAIN rg_mtx : rg_mtx[k] = plhs[1]
  /\ \E k \in DOMAIN rg_mtx : rg_mtx[k] = plhs[2]

\* C13: for every non-empty matrix the returned minVal and maxVal satisfy
\* minVal <= every element <= maxVal and both occur in the matrix (the
\* else-if never makes the scan miss a minimum or a maximum).
C13_MinMax ==
  (rg_pc = "done" /\ numElements >= 1) => ReturnsMinMax

\* C13 as amended: for every non-empty matrix with no NaN element the
\* returned minVal and maxVal satisfy minVal <= every element <= maxVal and
\* both occur in the matrix; while the scan runs the same holds of the
\* elements seen so far, so the else-if never skips a minimum or a maximum.
C13_MinMaxNoNaN ==
  /\ (rg_pc \in {"loop", "done"} /\ NoNaN) =>
       /\ numElements >= 1
       /\ \A k \in 0..(rg_i - 1) :
            DoubleLeq(minVal, rg_mtx[k]) /\ DoubleLeq(rg_mtx[k], maxVal)
       /\ \E k \in 0..(rg_i - 1) : rg_mtx[k] = minVal
       /\ \E k \in 0..(rg_i - 1) : rg_mtx[k] = maxVal
  /\ (rg_pc = "done" /\ NoNaN) => ReturnsMinMax
  /\ (rg_pc \in UndefinedOutcomes) => numElements = 0

\* The scan of a matrix without NaN has met a new minimum after a new
\* maximum and a value between them last (the matrix of the header's
\* example, 3 1 5 9 in memory order, has this shape up to its last element).
C13_Witness ==
  /\ rg_pc = "done"
  /\ NoNaN
  /\ numElements = 4
  /\ rg_mtx[1] < rg_mtx[0]
  /\ rg_mtx[2] > rg_mtx[0]
  /\ rg_mtx[1] < rg_mtx[3] /\ rg_mtx[3] < rg_mtx[2]
  /\ plhs = <<rg_mtx[1], rg_mtx[2]>>

(***************************************************************************)
(* Properties of pointOp.                                                  *)
(***************************************************************************)
\* Number of elements of the lookup table.
lut_size == Cardinality(DOMAIN lut)

\* The double res[i] equals the whole number v.
ResIs(i, v) == res[i][1] = v * res[i][2]

\* C11: with increment > 0, every position of the lookup table that is read
\* (index and index + 1) lies in 0 .. lut_size - 1, and a pixel whose
\* position is left of the origin or right of the last entry is mapped to
\* the nearest boundary value of the table, never by a read outside it
\* (stated for tables of two entries or more, where index and index + 1 can
\* both be inside).
C11_LutReadsInRange ==
  (po_pc \in {"loop", "done", "crashed", "undefined"} /\ increment > 0
     /\ lut_size >= 2) =>
    /\ po_pc \notin UndefinedOutcomes
    /\ \A r \in reads : Lt64(r, U64(lut_size))
    /\ \A i \in 0..(po_i - 1) :
         /\ PosNum(i) < 0 => ResIs(i, lut[0])
         /\ PosNum(i) > (lut_size - 1) * increment => ResIs(i, lut[lut_size - 1])

====
